---- MODULE Spec2Model ----
(***************************************************************************)
(* Electricity-demand prediction service: the three predictor scripts of   *)
(* src/src/lib (advanced-model-predictor.py, model-predictor.py and        *)
(* model-predictor-simple.py) as one state machine.                        *)
(*                                                                         *)
(* Conventions                                                             *)
(*   - usage values are integers in thousandths (1.0 == 1000), so that     *)
(*     round(x, 2) is a real operation (Round2);                           *)
(*   - a calendar date in its text form 'YYYY-MM-DD' is the tuple          *)
(*     <<y, m, d>>; a datetime is [ord, sec]: the proleptic Gregorian      *)
(*     ordinal of the day (date.toordinal) and the second of the day;      *)
(*   - an exception is [type, msg]; str(e) is its msg;                     *)
(*   - sin/cos are computed with Bhaskara's rational approximation, there  *)
(*     being no reals here: the seasonality term is within 0.07 of         *)
(*     20 * sin(2 * pi * day / 365.25);                                    *)
(*   - round(x, 2) resolves a tie of the decimal value to the even         *)
(*     hundredth; Python rounds the binary double, which a random draw     *)
(*     never leaves on a tie.                                              *)
(***************************************************************************)
EXTENDS Integers, Sequences, FiniteSets, TLC

\* ------------------------------------------------------------ bounds
\* calls of predict / generate_prediction one process serves
MaxCalls == 2
\* changes the environment makes to the artifact directory
MaxStoreOps == 1

\* ------------------------------------------------- program constants
HistoryDays == 90
SecondsPerDay == 86400
BaseFloor == 100
BaseSpread == 50
ScaleShift == 300

\* ------------------------------------------------------ the calendar
\* datetime's proleptic Gregorian calendar, as strptime / strftime /
\* timedelta arithmetic / timetuple use it.
IsLeap(y) == (y % 4 = 0) /\ ((y % 100 # 0) \/ (y % 400 = 0))

DaysInMonth(y, m) ==
    IF m = 2 THEN (IF IsLeap(y) THEN 29 ELSE 28)
    ELSE IF m \in {4, 6, 9, 11} THEN 30 ELSE 31

DaysBeforeYear(y) ==
    (y - 1) * 365 + ((y - 1) \div 4) - ((y - 1) \div 100) + ((y - 1) \div 400)

RECURSIVE DaysBeforeMonth(_, _)
DaysBeforeMonth(y, m) ==
    IF m <= 1 THEN 0 ELSE DaysBeforeMonth(y, m - 1) + DaysInMonth(y, m - 1)

\* date(y, m, d).toordinal()
ymd2ord(y, m, d) == DaysBeforeYear(y) + DaysBeforeMonth(y, m) + d

\* date.fromordinal(n) as (year, month, day): the inverse walk, 400-, 100-,
\* 4- and 1-year cycles first, then the month estimate (n + 50) >> 5.
ord2ymd(ordinal) ==
    LET n0   == ordinal - 1
        n400 == n0 \div 146097
        r400 == n0 % 146097
        n100 == r400 \div 36524
        r100 == r400 % 36524
        n4   == r100 \div 1461
        r4   == r100 % 1461
        n1   == r4 \div 365
        n    == r4 % 365
        year == n400 * 400 + 1 + n100 * 100 + n4 * 4 + n1
    IN IF n1 = 4 \/ n100 = 4 THEN <<year - 1, 12, 31>>
       ELSE LET est  == (n + 50) \div 32
                prec == DaysBeforeMonth(year, est)
                month == IF prec > n THEN est - 1 ELSE est
                before == DaysBeforeMonth(year, month)
            IN <<year, month, n - before + 1>>

\* datetime.strftime('%Y-%m-%d')
strftime(dt) == ord2ymd(dt.ord)

\* datetime - timedelta(days=k) and datetime + timedelta(days=k)
MinusDays(dt, k) == [ord |-> dt.ord - k, sec |-> dt.sec]
PlusDays(dt, k) == [ord |-> dt.ord + k, sec |-> dt.sec]

\* (a - b).days: timedelta normalises to days + a non-negative remainder, so
\* .days is the floor of the difference in days.
DeltaDays(a, b) ==
    ((a.ord - b.ord) * SecondsPerDay + (a.sec - b.sec)) \div SecondsPerDay

\* datetime.timetuple().tm_yday, .weekday(), .isocalendar()
tm_yday(dt) == dt.ord - DaysBeforeYear(ord2ymd(dt.ord)[1])
weekday(dt) == (dt.ord + 6) % 7

\* the text of a date: 'YYYY-MM-DD', every field zero-padded
Digit(d) ==
    CASE d = 0 -> "0" [] d = 1 -> "1" [] d = 2 -> "2" [] d = 3 -> "3"
      [] d = 4 -> "4" [] d = 5 -> "5" [] d = 6 -> "6" [] d = 7 -> "7"
      [] d = 8 -> "8" [] d = 9 -> "9"

DateText(text) ==
    Digit(text[1] \div 1000) \o Digit((text[1] \div 100) % 10)
        \o Digit((text[1] \div 10) % 10) \o Digit(text[1] % 10) \o "-"
        \o Digit(text[2] \div 10) \o Digit(text[2] % 10) \o "-"
        \o Digit(text[3] \div 10) \o Digit(text[3] % 10)

\* datetime.strptime(text, '%Y-%m-%d'): the parsed midnight, or the ValueError.
\* The format's pattern takes a month of 01..12 and a day of 01..31: another
\* month, or a day of 00, does not match; of a day above 31 it takes the
\* first digit and leaves the second unconverted; the date is built last.
DateValid(text) ==
    /\ text[1] \in 1..9999
    /\ text[2] \in 1..12
    /\ text[3] \in 1..DaysInMonth(text[1], text[2])

strptime(text) ==
    IF DateValid(text)
    THEN [ok |-> TRUE,
          value |-> [ord |-> ymd2ord(text[1], text[2], text[3]), sec |-> 0]]
    ELSE [ok |-> FALSE,
          error |-> [type |-> "ValueError",
                     msg |-> IF text[2] \notin 1..12 \/ text[3] = 0
                             THEN "time data '" \o DateText(text)
                                      \o "' does not match format '%Y-%m-%d'"
                             ELSE IF text[3] > 31
                             THEN "unconverted data remains: "
                                      \o Digit(text[3] % 10)
                             ELSE IF text[1] = 0
                             THEN "year 0 is out of range"
                             ELSE "day is out of range for month"]]

\* ---------------------------------------------------------- numerics
Max(a, b) == IF a >= b THEN a ELSE b

\* mutant of Floor0: the floor forgotten
Floor0_None(x) == x

\* max(0, x): the floor at 0 of every usage value
Floor0(x) == Max(0, x)

\* round(x, 2) on thousandths: to the nearest hundredth, ties to even.
Round2(x) ==
    LET q == x \div 10
        r == x % 10
    IN IF r < 5 THEN q * 10
       ELSE IF r > 5 THEN (q + 1) * 10
       ELSE IF q % 2 = 0 THEN q * 10 ELSE (q + 1) * 10

\* 1000 * sin(deg10 / 10 degrees), Bhaskara I: 4x(180-x) / (40500 - x(180-x)).
RECURSIVE SinMilli(_)
SinMilli(deg10) ==
    IF deg10 < 0 THEN -SinMilli(-deg10)
    ELSE IF deg10 >= 3600 THEN SinMilli(deg10 - 3600)
    ELSE IF deg10 > 1800 THEN -SinMilli(deg10 - 1800)
    ELSE LET p == deg10 * (1800 - deg10)
         IN (40 * p) \div ((4050000 - p) \div 100)

\* 20 * np.sin(2 * np.pi * day_of_year / 365.25), in thousandths
Seasonality(day_of_year) == (20 * SinMilli((14400 * day_of_year) \div 1461))

\* ------------------------------------------------------- the requests
LongMP == "Madhya Pradesh (MP)"
Regions == {"MP", LongMP}
Families == {"ARIMA", "XGBoost", "LSTM", "Prophet"}
ModelTypes == Families \cup {"Unsupported"}

\* ------------------------------------------- Region Name Normalizer
state_mapping ==
    [l \in {"Dadra & Nagar Haveli (DNH)", "Himachal Pradesh (HP)",
            "Jammu & Kashmir (J&K)", "Madhya Pradesh (MP)",
            "Puducherry (Pondy)", "Uttar Pradesh (UP)"} |->
        CASE l = "Dadra & Nagar Haveli (DNH)" -> "DNH"
          [] l = "Himachal Pradesh (HP)" -> "HP"
          [] l = "Jammu & Kashmir (J&K)" -> "J&K"
          [] l = "Madhya Pradesh (MP)" -> "MP"
          [] l = "Puducherry (Pondy)" -> "Pondy"
          [] l = "Uttar Pradesh (UP)" -> "UP"]

\* state_mapping.get(state, state)
model_state(state) ==
    IF state \in DOMAIN state_mapping THEN state_mapping[state] ELSE state

\* the labels a caller can pass: every long label of the table, every code it
\* maps to, and one label the table does not know
Labels ==
    (DOMAIN state_mapping) \cup {state_mapping[l] : l \in DOMAIN state_mapping}
        \cup {"Maharashtra"}

\* str.lower() on the model types of the requests
lower(model_type) ==
    CASE model_type = "ARIMA" -> "arima"
      [] model_type = "XGBoost" -> "xgboost"
      [] model_type = "LSTM" -> "lstm"
      [] model_type = "Prophet" -> "prophet"
      [] model_type = "Unsupported" -> "unsupported"

\* ------------------------------------------------------ Model Locator
models_dir == "models"

\* mutant of get_model_path: the label used verbatim, the table never consulted
get_model_path_Raw(state, model_type) ==
    IF model_type = "LSTM"
    THEN models_dir \o "/" \o state \o "_lstm_model.h5"
    ELSE models_dir \o "/" \o state \o "_" \o lower(model_type)
             \o "_model.joblib"

\* _get_model_path; os.path.join(models_dir, name) is models_dir/name
get_model_path(state, model_type) ==
    IF model_type = "LSTM"
    THEN models_dir \o "/" \o model_state(state) \o "_lstm_model.h5"
    ELSE models_dir \o "/" \o model_state(state) \o "_" \o lower(model_type)
             \o "_model.joblib"

Paths == {get_model_path(s, t) : s \in Labels, t \in ModelTypes}

\* mutant of cache_key: the key built from the canonical code
cache_key_Canonical(state, model_type) ==
    model_state(state) \o "_" \o model_type

\* f"{state}_{model_type}"
cache_key(state, model_type) == state \o "_" \o model_type

\* ----------------------------------------------------- artifact store
\* What a file of the models directory holds, as joblib.load sees it: bytes
\* that do not deserialize, or an object: one without a predict method, or an
\* estimator fitted on n_features columns that answers `output`.
Absent == [kind |-> "absent"]
\* a corrupt file holds bytes that begin with 0xff, which is no pickle opcode
Corrupt == [kind |-> "corrupt"]
NoPredict == [kind |-> "object", hasPredict |-> FALSE, n_features |-> 0, output |-> 0]
Fitted12 == [kind |-> "object", hasPredict |-> TRUE, n_features |-> 12, output |-> -5004]
Good12 == [kind |-> "object", hasPredict |-> TRUE, n_features |-> 12, output |-> 412346]
Good15 == [kind |-> "object", hasPredict |-> TRUE, n_features |-> 15, output |-> 398765]
Fitted15 == [kind |-> "object", hasPredict |-> TRUE, n_features |-> 15, output |-> -12346]
FileContents == {Corrupt, NoPredict, Fitted12, Fitted15, Good12, Good15}

\* os.path.exists(path)
exists(st, path) == st[path] # Absent

\* ------------------------------------------------------- Model Cache
\* mutant of Put: the loaded handle is returned but never memoized
Put_Forget(cache, key, value) == cache

\* dict[key] = value
Put(cache, key, value) ==
    [k \in (DOMAIN cache) \cup {key} |-> IF k = key THEN value ELSE cache[k]]

\* joblib.load(model_path): the object the file holds, or the exception.
\* A file that is no longer there fails the open() with errno 2.  joblib's
\* unpickler is the pure-Python pickle._Unpickler, whose load() looks the
\* first byte up in its dispatch table: a file that begins with 0xff raises
\* KeyError(255), and str() of it is "255".
joblib_load(st, path) ==
    IF st[path] = Absent
    THEN [ok |-> FALSE,
          error |-> [type |-> "FileNotFoundError",
                     msg |-> "[Errno 2] No such file or directory: '"
                                \o path \o "'"]]
    ELSE IF st[path] = Corrupt
    THEN [ok |-> FALSE,
          error |-> [type |-> "KeyError", msg |-> "255"]]
    ELSE [ok |-> TRUE, value |-> st[path]]

\* the mock handle of an LSTM artifact: f"LSTM_MODEL_{state}"
LstmHandle(state) ==
    [kind |-> "placeholder", hasPredict |-> FALSE, n_features |-> 0,
     output |-> 0, tag |-> "LSTM_MODEL_" \o state]

\* except Exception as e: raise RuntimeError(f"Failed to load model ...")
LoadFailure(path, e) ==
    [type |-> "RuntimeError",
     msg |-> "Failed to load model " \o path \o ": " \o e.msg]

\* What _load_model gives back: ok and the handle, or the exception raised;
\* the cache as the call leaves it; and, for the record, whether the call
\* deserialized an artifact (loaded) and whether it answered from the cache.
LoadResult(ok, model, error, cache, loaded, hit) ==
    [ok |-> ok, model |-> model, error |-> error, cache |-> cache,
     loaded |-> loaded, hit |-> hit]

NoError == [type |-> "", msg |-> ""]
NoModel == [kind |-> "none", hasPredict |-> FALSE, n_features |-> 0, output |-> 0]

\* AdvancedModelPredictor._load_model.  The call looks at the models
\* directory twice: os.path.exists finds it as `st`, and joblib.load, later,
\* as `read`; the two differ when the file was removed in between.
Adv_load_model(st, read, cache, tf, jl, state, model_type) ==
    LET model_path == get_model_path(state, model_type)
        key == cache_key(state, model_type)
    IN IF ~exists(st, model_path)
       THEN LoadResult(FALSE, NoModel,
                [type |-> "FileNotFoundError",
                 msg |-> "Model not found: " \o model_path],
                cache, FALSE, FALSE)
       ELSE IF key \in DOMAIN cache
       THEN LoadResult(TRUE, cache[key], NoError, cache, FALSE, TRUE)
       ELSE IF model_type = "LSTM"
       THEN IF ~tf
            THEN LoadResult(FALSE, NoModel,
                     LoadFailure(model_path,
                         [type |-> "ImportError",
                          msg |-> "TensorFlow not available for LSTM models"]),
                     cache, FALSE, FALSE)
            ELSE LoadResult(TRUE, LstmHandle(state), NoError,
                     Put(cache, key, LstmHandle(state)), TRUE, FALSE)
       ELSE IF ~jl
            THEN LoadResult(FALSE, NoModel,
                     LoadFailure(model_path,
                         [type |-> "ImportError",
                          msg |-> "joblib not available for model loading"]),
                     cache, FALSE, FALSE)
            ELSE LET got == joblib_load(read, model_path)
                 IN IF got.ok
                    THEN LoadResult(TRUE, got.value, NoError,
                             Put(cache, key, got.value), TRUE, FALSE)
                    ELSE LoadResult(FALSE, NoModel,
                             LoadFailure(model_path, got.error),
                             cache, FALSE, FALSE)

\* ModelPredictor._load_model: `st` is the models directory at the
\* os.path.exists test and `read` at joblib.load
Basic_load_model(st, read, cache, state, model_type) ==
    LET model_path == get_model_path(state, model_type)
        key == cache_key(state, model_type)
    IN IF ~exists(st, model_path)
       THEN LoadResult(FALSE, NoModel,
                [type |-> "FileNotFoundError",
                 msg |-> "Model not found: " \o model_path],
                cache, FALSE, FALSE)
       ELSE IF key \in DOMAIN cache
       THEN LoadResult(TRUE, cache[key], NoError, cache, FALSE, TRUE)
       ELSE IF model_type = "LSTM"
       THEN LoadResult(TRUE, LstmHandle(state), NoError,
                Put(cache, key, LstmHandle(state)), TRUE, FALSE)
       ELSE LET got == joblib_load(read, model_path)
            IN IF got.ok
               THEN LoadResult(TRUE, got.value, NoError,
                        Put(cache, key, got.value), TRUE, FALSE)
               ELSE LoadResult(FALSE, NoModel,
                        LoadFailure(model_path, got.error),
                        cache, FALSE, FALSE)

\* for model_type in ['ARIMA', 'XGBoost', 'LSTM', 'Prophet']
FamilyOrder == <<"ARIMA", "XGBoost", "LSTM", "Prophet">>

\* mutant of get_available_models: the listing warms the cache with the
\* XGBoost artifact it finds
get_available_models_Warming(st, cache, state) ==
    [available_models |->
        SelectSeq(FamilyOrder,
                  LAMBDA t : exists(st, get_model_path(state, t))),
     model_paths |-> [t \in Families |-> get_model_path(state, t)],
     cache |-> IF exists(st, get_model_path(state, "XGBoost"))
               THEN Put(cache, cache_key(state, "XGBoost"),
                        st[get_model_path(state, "XGBoost")])
               ELSE cache]

\* get_available_models of both predictors: the list returned, the path
\* computed for each family, and the cache as the call leaves it
get_available_models(st, cache, state) ==
    [available_models |->
        SelectSeq(FamilyOrder,
                  LAMBDA t : exists(st, get_model_path(state, t))),
     model_paths |-> [t \in Families |-> get_model_path(state, t)],
     cache |-> cache]

\* ---------------------------------------------------- Feature Builder
\* the sine and cosine features, in thousandths
AnnualPhase(dt) == (14400 * tm_yday(dt)) \div 1461
MonthPhase(dt) == 300 * ord2ymd(dt.ord)[2]

\* _isoweek1monday(year): the ordinal of the Monday that starts ISO week 1
isoweek1monday(year) ==
    LET firstday == ymd2ord(year, 1, 1)
        firstweekday == (firstday + 6) % 7
        monday == firstday - firstweekday
    IN IF firstweekday > 3 THEN monday + 7 ELSE monday

\* datetime.isocalendar() as <<ISO year, ISO week, ISO weekday>>
isocalendar(dt) ==
    LET year == ord2ymd(dt.ord)[1]
        w == (dt.ord - isoweek1monday(year)) \div 7
        d == (dt.ord - isoweek1monday(year)) % 7
    IN IF w < 0
       THEN <<year - 1, ((dt.ord - isoweek1monday(year - 1)) \div 7) + 1,
              ((dt.ord - isoweek1monday(year - 1)) % 7) + 1>>
       ELSE IF w >= 52 /\ dt.ord >= isoweek1monday(year + 1)
       THEN <<year + 1, 1, d + 1>>
       ELSE <<year, w + 1, d + 1>>

\* ModelPredictor._prepare_features, given the parsed date: 12 columns
Basic_features(state_hash, lat, lon, pred_date) ==
    LET ymd == ord2ymd(pred_date.ord)
    IN <<ymd[1], ymd[2], ymd[3], weekday(pred_date), tm_yday(pred_date),
         lat, lon,
         SinMilli(AnnualPhase(pred_date)), SinMilli(AnnualPhase(pred_date) + 900),
         SinMilli(MonthPhase(pred_date)), SinMilli(MonthPhase(pred_date) + 900),
         state_hash>>

\* AdvancedModelPredictor._prepare_features, given the parsed date: 15 columns
Adv_features(state_hash, lat, lon, pred_date) ==
    Basic_features(state_hash, lat, lon, pred_date)
        \o <<isocalendar(pred_date)[2], isocalendar(pred_date)[3],
             pred_date.ord - ymd2ord(ord2ymd(pred_date.ord)[1], 1, 1)>>

\* ------------------------------------------------------------ inputs
\* datetime.now(): the readings of the clock a call makes.  predict reads it
\* twice (in _generate_historical_data, then for days_ahead), so a reading is
\* a pair <<first, second>> with the second not before the first.
At(y, m, d, sec) == [ord |-> ymd2ord(y, m, d), sec |-> sec]

ClockReadings ==
    { <<At(2024, 3, 30, 0), At(2024, 3, 30, 0)>>,
      <<At(2024, 3, 30, 52200), At(2024, 3, 30, 52201)>>,
      <<At(2024, 3, 31, 86399), At(2024, 4, 1, 0)>> }

\* prediction_date as the caller writes it; the last two are not dates
PredictionDates ==
    { <<2024, 3, 12>>, <<2024, 3, 30>>, <<2024, 3, 31>>, <<2024, 4, 1>>,
      <<2024, 4, 2>>, <<2024, 4, 4>>, <<2024, 2, 30>>, <<2024, 13, 1>> }

\* lat, lon in thousandths of a degree
Coordinates == { <<20594, 78963>> }

\* hash(state) % 1000: Python salts str hashes per process, so the bucket of
\* a label is any value of 0..999, the same for the whole process.
HashChoices ==
    { [s \in Regions |-> IF s = "MP" THEN 7 ELSE 960],
      [s \in Regions |-> IF s = "MP" THEN 999 ELSE 349] }

\* The process-global random source: the k-th draw of a call.  Normal(n, k) is
\* the k-th standard-normal draw in thousandths of a sigma, so that
\* np.random.normal(0, scale) is scale * Normal; Uniform(n, k) is the k-th
\* np.random.random() in thousandths.  "tail" is the far lower tail, the one
\* place where the floor at 0 of a synthesized value acts.
NoiseSources == {"flat", "swing", "tail"}

Normal(n, k) ==
    CASE n = "flat" -> 0
      [] n = "swing" -> IF k % 2 = 0 THEN 1503 ELSE -997
      [] n = "tail" -> -60001

Uniform(n, k) ==
    CASE n = "flat" -> 500
      [] n = "swing" -> IF k % 2 = 0 THEN 999 ELSE 1
      [] n = "tail" -> 0

\* the scripts a process can be, with the optional imports it found
Processes ==
    { [script |-> "advanced", tf |-> t, jl |-> j] : t \in BOOLEAN, j \in BOOLEAN }
    \cup { [script |-> "basic", tf |-> TRUE, jl |-> TRUE],
           [script |-> "simple", tf |-> TRUE, jl |-> TRUE] }

\* a request: the arguments of predict, the readings of the clock the call
\* makes and the random source it draws from
Request(state, c, d, t, now, n) ==
    [state |-> state, lat |-> c[1], lon |-> c[2], prediction_date |-> d,
     model_type |-> t, now1 |-> now[1], now2 |-> now[2], noise |-> n]

\* what one command-line invocation can be asked
CliRequests ==
    { Request(state, c, d, t, now, n) :
        state \in Regions, c \in Coordinates, d \in PredictionDates,
        t \in ModelTypes, now \in ClockReadings, n \in NoiseSources }

\* what a long-lived predictor is asked: every cache key, at one afternoon
\* with one random source, and one request that carries no date
Afternoon == <<At(2024, 3, 30, 52200), At(2024, 3, 30, 52201)>>

ServiceRequests ==
    { Request(state, <<20594, 78963>>, <<2024, 4, 2>>, t, Afternoon, "swing") :
        state \in Regions, t \in {"XGBoost", "LSTM", "Unsupported"} }
    \cup { Request("MP", <<20594, 78963>>, <<2024, 2, 30>>, "XGBoost",
                   Afternoon, "swing") }

\* ------------------------------------------------ Seasonal Synthesizer
\* base_usage = 100 + (state_seed % 50), in thousandths
base_usage(state_seed) == (BaseFloor + (state_seed % BaseSpread)) * 1000

SeriesPoint(date, usage) == [date |-> date, usage |-> usage]

\* mutant of Adv_generate_historical_data: range(days - 1, -1, -1), a series
\* that ends today
Adv_generate_historical_data_ToToday(state_seed, today, days, n, k0) ==
    [j \in 1..days |->
        LET i == days - j
            date == MinusDays(today, i)
            usage == base_usage(state_seed) + i * 100
                        + Seasonality(tm_yday(date)) + 5 * Normal(n, k0 + j)
        IN SeriesPoint(strftime(date), Floor0(Round2(usage)))]

\* AdvancedModelPredictor._generate_historical_data(state, 90); the draws of
\* the loop are k0 + 1 .. k0 + days.
Adv_generate_historical_data(state_seed, today, days, n, k0) ==
    [j \in 1..days |->
        LET i == days - j + 1
            date == MinusDays(today, i)
            usage == base_usage(state_seed) + i * 100
                        + Seasonality(tm_yday(date)) + 5 * Normal(n, k0 + j)
        IN SeriesPoint(strftime(date), Floor0(Round2(usage)))]

\* AdvancedModelPredictor._generate_forecast_data
Adv_generate_forecast_data(state_seed, pred_date, days_ahead, n, k0) ==
    [i \in 1..days_ahead |->
        LET date == PlusDays(pred_date, i)
            usage == base_usage(state_seed) + i * 100
                        + Seasonality(tm_yday(date)) + 3 * Normal(n, k0 + i)
        IN SeriesPoint(strftime(date), Floor0(Round2(usage)))]

\* ModelPredictor._generate_historical_data: floors, then rounds
Basic_generate_historical_data(state_seed, today, days, n, k0) ==
    [j \in 1..days |->
        LET i == days - j + 1
            date == MinusDays(today, i)
            usage == base_usage(state_seed) + i * 100
                        + Seasonality(tm_yday(date)) + 5 * Normal(n, k0 + j)
        IN SeriesPoint(strftime(date), Round2(Floor0(usage)))]

\* ModelPredictor._generate_forecast_data
Basic_generate_forecast_data(state_seed, pred_date, days_ahead, n, k0) ==
    [i \in 1..days_ahead |->
        LET date == PlusDays(pred_date, i)
            usage == base_usage(state_seed) + i * 100
                        + Seasonality(tm_yday(date)) + 3 * Normal(n, k0 + i)
        IN SeriesPoint(strftime(date), Round2(Floor0(usage)))]

\* The generators are pure, so each is evaluated once per argument the
\* requests can give it and the calls below read the tabulated series.
\* `drawn` is the number of draws the call made for its point prediction
\* before the series: the point is draw 0 when there is one, so the history
\* takes the draws drawn .. drawn + 89 and the forecast those that follow.
Seeds == UNION {{h[s] : s \in Regions} : h \in HashChoices}
Todays == {r[1] : r \in ClockReadings}
ParsedDates == {strptime(d).value : d \in {x \in PredictionDates : DateValid(x)}}
Horizons ==
    {Max(1, DeltaDays(d, r[k])) : d \in ParsedDates, r \in ClockReadings, k \in {1, 2}}

Adv_historical ==
    [seed \in Seeds, today \in Todays, n \in NoiseSources, drawn \in {0, 1} |->
        Adv_generate_historical_data(seed, today, HistoryDays, n, drawn - 1)]

Adv_forecast ==
    [seed \in Seeds, d \in ParsedDates, days \in Horizons, n \in NoiseSources,
     drawn \in {0, 1} |->
        Adv_generate_forecast_data(seed, d, days, n, HistoryDays + drawn - 1)]

Basic_historical ==
    [seed \in Seeds, today \in Todays, n \in NoiseSources, drawn \in {0, 1} |->
        Basic_generate_historical_data(seed, today, HistoryDays, n, drawn - 1)]

Basic_forecast ==
    [seed \in Seeds, d \in ParsedDates, days \in Horizons, n \in NoiseSources,
     drawn \in {0, 1} |->
        Basic_generate_forecast_data(seed, d, days, n, HistoryDays + drawn - 1)]

\* ---------------------------------------------------- Prediction Engine
\* What a call gives its caller: the result dictionary, or the exception.
\* `strategy` records how the point prediction was made: "synthesis" (ARIMA,
\* LSTM, Prophet, the simple script), "inference" (the loaded estimator
\* answered) or "fallback" (XGBoost after a failed inference).
Failure(e) ==
    [ok |-> FALSE, error |-> e, predicted_usage |-> 0, model_type |-> "",
     historical_data |-> <<>>, forecast_data |-> <<>>, features_used |-> <<>>,
     strategy |-> "none"]

Success(predicted_usage, model_type, historical, forecast, features, strategy) ==
    [ok |-> TRUE, error |-> NoError, predicted_usage |-> predicted_usage,
     model_type |-> model_type, historical_data |-> historical,
     forecast_data |-> forecast, features_used |-> features,
     strategy |-> strategy]

\* except Exception as e: raise RuntimeError(f"Prediction failed: {str(e)}")
PredictionFailed(e) ==
    Failure([type |-> "RuntimeError", msg |-> "Prediction failed: " \o e.msg])

\* model.predict(features)[0]: the estimator's answer, or nothing when the
\* handle has no predict or was fitted on another number of columns.
Inference(model, features) ==
    IF model.hasPredict /\ model.n_features = Len(features)
    THEN [ok |-> TRUE, value |-> model.output]
    ELSE [ok |-> FALSE, value |-> 0]

\* the draws the point prediction takes from the random source: one for a
\* synthesized point and for the fallback, none when the estimator answered
PointDraws(strategy) == IF strategy = "inference" THEN 0 ELSE 1

\* noise scale of the synthesized point prediction, per family
PointScale(model_type) ==
    CASE model_type = "ARIMA" -> 5
      [] model_type = "LSTM" -> 3
      [] model_type = "Prophet" -> 4

\* base_usage + trend + seasonality + noise with trend = 0.1
SynthPoint(state_seed, pred_date, scale, n) ==
    base_usage(state_seed) + 100 + Seasonality(tm_yday(pred_date))
        + scale * Normal(n, 0)

\* mutant of FallbackPoint: the trend term of the other branches copied in
FallbackPoint_Trend(state_seed, n) ==
    base_usage(state_seed) + 100 + 10 * Normal(n, 0)

\* the XGBoost fallback: base_usage + np.random.normal(0, 10)
FallbackPoint(state_seed, n) == base_usage(state_seed) + 10 * Normal(n, 0)

\* AdvancedModelPredictor.predict, lines 255-267: the two series, generated
\* after the `drawn` draws of the point prediction, and the result assembled
Adv_series(predicted_usage, drawn, features, strategy, state_seed, pred_date, model_type, now1, now2, n) ==
    LET historical_data == Adv_historical[state_seed, now1, n, drawn]
        days_ahead == DeltaDays(pred_date, now2)
        forecast_data ==
            Adv_forecast[state_seed, pred_date, Max(1, days_ahead), n, drawn]
    IN Success(predicted_usage, model_type, historical_data, forecast_data,
               features, strategy)

\* AdvancedModelPredictor.predict, after the load: lines 191-267
Adv_predict_loaded(model, state_seed, lat, lon, prediction_date, model_type, now1, now2, n) ==
    LET parsed == strptime(prediction_date)
    IN IF ~parsed.ok THEN PredictionFailed(parsed.error)
       ELSE IF model_type \notin Families
       THEN PredictionFailed([type |-> "ValueError",
                 msg |-> "Unsupported model type: " \o model_type])
       ELSE
       LET pred_date == parsed.value
           features == Adv_features(state_seed, lat, lon, pred_date)
           inferred == Inference(model, features)
           strategy == IF model_type # "XGBoost" THEN "synthesis"
                       ELSE IF inferred.ok THEN "inference" ELSE "fallback"
           raw == IF strategy = "inference" THEN inferred.value
                  ELSE IF strategy = "fallback" THEN FallbackPoint(state_seed, n)
                  ELSE SynthPoint(state_seed, pred_date, PointScale(model_type), n)
       IN Adv_series(Floor0(Round2(raw)), PointDraws(strategy), features,
                     strategy, state_seed, pred_date, model_type, now1, now2, n)

\* mutant of Adv_predict: a failed load silently answered by the synthesizer
Adv_predict_SilentFallback(st, read, cache, tf, jl, state_seed, state, lat, lon, prediction_date, model_type, now1, now2, n) ==
    LET load == Adv_load_model(st, read, cache, tf, jl, state, model_type)
    IN [load |-> load,
        result |-> Adv_predict_loaded(load.model, state_seed, lat, lon,
                       prediction_date, model_type, now1, now2, n)]

\* mutant of Adv_predict: a call that fails drops what the cache holds
Adv_predict_Evicting(st, read, cache, tf, jl, state_seed, state, lat, lon, prediction_date, model_type, now1, now2, n) ==
    LET load == Adv_load_model(st, read, cache, tf, jl, state, model_type)
        result == IF ~load.ok THEN PredictionFailed(load.error)
                  ELSE Adv_predict_loaded(load.model, state_seed, lat, lon,
                           prediction_date, model_type, now1, now2, n)
    IN [load |-> IF result.ok THEN load ELSE [load EXCEPT !.cache = [k \in {} |-> NoModel]],
        result |-> result]

\* AdvancedModelPredictor.predict: the result and the cache it leaves
Adv_predict(st, read, cache, tf, jl, state_seed, state, lat, lon, prediction_date, model_type, now1, now2, n) ==
    LET load == Adv_load_model(st, read, cache, tf, jl, state, model_type)
    IN [load |-> load,
        result |-> IF ~load.ok THEN PredictionFailed(load.error)
                   ELSE Adv_predict_loaded(load.model, state_seed, lat, lon,
                            prediction_date, model_type, now1, now2, n)]

\* ModelPredictor.predict, lines 235-246: the two series and the result
Basic_series(predicted_usage, drawn, features, strategy, state_seed, pred_date, model_type, now1, now2, n) ==
    LET historical_data == Basic_historical[state_seed, now1, n, drawn]
        days_ahead == DeltaDays(pred_date, now2)
        forecast_data ==
            Basic_forecast[state_seed, pred_date, Max(1, days_ahead), n, drawn]
    IN Success(predicted_usage, model_type, historical_data, forecast_data,
               features, strategy)

\* ModelPredictor.predict, after the load: lines 170-246
Basic_predict_loaded(model, state_seed, lat, lon, prediction_date, model_type, now1, now2, n) ==
    LET parsed == strptime(prediction_date)
    IN IF ~parsed.ok THEN PredictionFailed(parsed.error)
       ELSE IF model_type \notin Families
       THEN PredictionFailed([type |-> "ValueError",
                 msg |-> "Unsupported model type: " \o model_type])
       ELSE
       LET pred_date == parsed.value
           features == Basic_features(state_seed, lat, lon, pred_date)
           inferred == Inference(model, features)
           strategy == IF model_type # "XGBoost" THEN "synthesis"
                       ELSE IF inferred.ok THEN "inference" ELSE "fallback"
           raw == IF strategy = "inference" THEN inferred.value
                  ELSE IF strategy = "fallback" THEN FallbackPoint(state_seed, n)
                  ELSE SynthPoint(state_seed, pred_date, PointScale(model_type), n)
       IN Basic_series(Round2(Floor0(raw)), PointDraws(strategy), features,
                       strategy, state_seed, pred_date, model_type, now1, now2, n)

\* ModelPredictor.predict
Basic_predict(st, read, cache, state_seed, state, lat, lon, prediction_date, model_type, now1, now2, n) ==
    LET load == Basic_load_model(st, read, cache, state, model_type)
    IN [load |-> load,
        result |-> IF ~load.ok THEN PredictionFailed(load.error)
                   ELSE Basic_predict_loaded(load.model, state_seed, lat, lon,
                            prediction_date, model_type, now1, now2, n)]

\* ------------------------------------------------ the simple predictor
\* ord() of the characters of a region label
Ord(state) ==
    CASE state = "MP" -> <<77, 80>>
      [] state = LongMP ->
            <<77, 97, 100, 104, 121, 97, 32, 80, 114, 97, 100, 101, 115, 104,
              32, 40, 77, 80, 41>>

\* hash_string(s) % m.  hash_val = ((hash_val << 5) - hash_val) + ord(char)
\* is 31 * hash_val + ord(char); `hash_val & hash_val` changes nothing, the
\* integers are unbounded and the value never negative, so abs() is the
\* identity and the residue can be carried through the loop.
RECURSIVE hash_string_mod(_, _)
hash_string_mod(chars, m) ==
    IF chars = <<>> THEN 0
    ELSE (31 * hash_string_mod(SubSeq(chars, 1, Len(chars) - 1), m)
            + chars[Len(chars)]) % m

\* model_adjustments.get(model_type, 0), in thousandths
model_adjustment(model_type) ==
    CASE model_type = "ARIMA" -> 0
      [] model_type = "XGBoost" -> 5000
      [] model_type = "LSTM" -> -2000
      [] model_type = "Prophet" -> 3000
      [] OTHER -> 0

\* generate_prediction, lines 66-83: the historical series
Simple_historical_data(base, today, n) ==
    [j \in 1..HistoryDays |->
        LET i == HistoryDays - j + 1
            date == MinusDays(today, i)
            usage == base + (HistoryDays - i) * 100
                       + Seasonality(tm_yday(date))
                       + (Uniform(n, j) - 500) * 10
        IN SeriesPoint(strftime(date),
                       Floor0(Round2(usage + ScaleShift * 1000)))]

\* generate_prediction, lines 85-102: the forecast series
Simple_forecast_data(base, pred_date, days_ahead, n) ==
    [i \in 1..Max(1, days_ahead) |->
        LET date == PlusDays(pred_date, i)
            usage == base + i * 100 + Seasonality(tm_yday(date))
                       + (Uniform(n, HistoryDays + i) - 500) * 5
        IN SeriesPoint(strftime(date),
                       Floor0(Round2(usage + ScaleShift * 1000)))]

\* state_seed = hash_string(state); base_usage = 100 + (state_seed % 50)
Simple_base(state) == base_usage(hash_string_mod(Ord(state), BaseSpread))

Simple_historical ==
    [state \in Regions, today \in Todays, n \in NoiseSources |->
        Simple_historical_data(Simple_base(state), today, n)]

Simple_forecast ==
    [state \in Regions, d \in ParsedDates,
     days \in {DeltaDays(x, r[1]) : x \in ParsedDates, r \in ClockReadings},
     n \in NoiseSources |->
        Simple_forecast_data(Simple_base(state), d, days, n)]

\* model-predictor-simple.py generate_prediction: one reading of the clock
generate_prediction(state, lat, lon, prediction_date, model_type, today, n) ==
    LET parsed == strptime(prediction_date)
    IN IF ~parsed.ok THEN Failure(parsed.error)
       ELSE
       LET pred_date == parsed.value
           days_ahead == DeltaDays(pred_date, today)
           base == Simple_base(state)
           ymd == ord2ymd(pred_date.ord)
           day_of_year == tm_yday(pred_date)
           seasonality == Seasonality(day_of_year)
           monthly_pattern == 10 * SinMilli(300 * ymd[2])
           weekly_pattern == 5 * SinMilli((3600 * weekday(pred_date)) \div 7)
           lat_adjustment == (lat - 20000) \div 2
           lon_adjustment == ((lon - 78000) * 3) \div 10
           raw == base + seasonality + monthly_pattern + weekly_pattern
                    + lat_adjustment + lon_adjustment
                    + model_adjustment(model_type)
                    + (Uniform(n, 0) - 500) * 10
           predicted_usage == Floor0(Round2(raw + ScaleShift * 1000))
           historical_data == Simple_historical[state, today, n]
           forecast_data == Simple_forecast[state, pred_date, days_ahead, n]
       IN Success(predicted_usage, model_type, historical_data, forecast_data,
                  <<ymd[1], ymd[2], ymd[3], weekday(pred_date), day_of_year,
                    lat, lon>>, "synthesis")

CacheKeys == {cache_key(s, t) : s \in Regions, t \in ModelTypes}

\* ------------------------------------------------------------- state
VARIABLES
    store,                 \* the models directory: path -> what the file holds
    script,                \* which of the three scripts this process runs
    TENSORFLOW_AVAILABLE,  \* advanced-model-predictor.py:25-30
    JOBLIB_AVAILABLE,      \* advanced-model-predictor.py:18-23
    str_hash,              \* hash(label) % 1000 in this process
    loaded_models,         \* AdvancedModelPredictor.loaded_models
    model_cache,           \* ModelPredictor.model_cache
    result,                \* what the last call gave its caller
    call,                  \* the last call: its arguments and what it met
    loads,                 \* cache key -> artifacts deserialized for it so far
    budget,                \* calls the process still serves
    storeOps,              \* changes made to the models directory so far
    available_models,      \* what the last get_available_models returned
    model_paths            \* family -> the path that call computed for it

vars == <<store, script, TENSORFLOW_AVAILABLE, JOBLIB_AVAILABLE, str_hash,
          loaded_models, model_cache, result, call, loads, budget, storeOps,
          available_models, model_paths>>

EmptyCache == [k \in {} |-> NoModel]

NoRequest ==
    Request("", <<0, 0>>, <<>>, "", <<At(1, 1, 1, 0), At(1, 1, 1, 0)>>, "")

\* the record of a call: the request, the path it resolves to, whether the file
\* existed, whether the key was cached and what the cache held for it, and
\* what _load_model did (hit the cache, deserialized, the handle it gave)
CallRecord(op, rq, existed, cached, held, hit, loaded, got) ==
    [op |-> op, rq |-> rq,
     path |-> IF op = "none" THEN "" ELSE get_model_path(rq.state, rq.model_type),
     existed |-> existed, cached |-> cached, held |-> held, hit |-> hit,
     loaded |-> loaded, got |-> got]

NoCall == CallRecord("none", NoRequest, FALSE, FALSE, NoModel, FALSE, FALSE, NoModel)

NoResult == Failure(NoError)

NoPaths == [t \in Families |-> ""]

\* a fresh process: empty caches, nothing served yet
Fresh ==
    /\ \E proc \in Processes :
           /\ script = proc.script
           /\ TENSORFLOW_AVAILABLE = proc.tf
           /\ JOBLIB_AVAILABLE = proc.jl
    /\ loaded_models = EmptyCache
    /\ model_cache = EmptyCache
    /\ result = NoResult
    /\ call = NoCall
    /\ loads = [k \in CacheKeys |-> 0]
    /\ storeOps = 0
    /\ available_models = <<>>
    /\ model_paths = NoPaths

\* a long-lived predictor over a models directory that starts empty or full
Init ==
    /\ Fresh
    /\ store \in {[p \in Paths |-> Absent], [p \in Paths |-> Fitted15]}
    /\ str_hash = [s \in Regions |-> IF s = "MP" THEN 7 ELSE 960]
    /\ budget = MaxCalls

PredictCall(cache, rq, load) ==
    CallRecord("predict", rq,
        exists(store, get_model_path(rq.state, rq.model_type)),
        cache_key(rq.state, rq.model_type) \in DOMAIN cache,
        IF cache_key(rq.state, rq.model_type) \in DOMAIN cache
        THEN cache[cache_key(rq.state, rq.model_type)] ELSE NoModel,
        load.hit, load.loaded, load.model)

CountLoad(rq, load) ==
    [loads EXCEPT ![cache_key(rq.state, rq.model_type)] =
        IF load.loaded THEN @ + 1 ELSE @]

\* The models directory as a call's joblib.load finds it: as the call's
\* os.path.exists found it, or, when another process removed the file in
\* between (gone), without that file.
AtRead(rq, gone) ==
    IF gone
    THEN [store EXCEPT ![get_model_path(rq.state, rq.model_type)] = Absent]
    ELSE store

\* a removal between the two looks is one of the directory's changes
CanVanish(rq, gone) ==
    gone => /\ storeOps < MaxStoreOps
            /\ exists(store, get_model_path(rq.state, rq.model_type))

\* advanced-model-predictor.py: predictor.predict(...)
AdvPredict(requests) ==
    /\ script = "advanced"
    /\ budget > 0
    /\ \E rq \in requests, gone \in BOOLEAN :
        LET r == Adv_predict(store, AtRead(rq, gone), loaded_models,
                    TENSORFLOW_AVAILABLE, JOBLIB_AVAILABLE,
                    str_hash[rq.state], rq.state, rq.lat, rq.lon,
                    rq.prediction_date, rq.model_type, rq.now1, rq.now2,
                    rq.noise)
        IN /\ CanVanish(rq, gone)
           /\ store' = AtRead(rq, gone)
           /\ storeOps' = IF gone THEN storeOps + 1 ELSE storeOps
           /\ loaded_models' = r.load.cache
           /\ result' = r.result
           /\ call' = PredictCall(loaded_models, rq, r.load)
           /\ loads' = CountLoad(rq, r.load)
    /\ budget' = budget - 1
    /\ available_models' = <<>>
    /\ model_paths' = NoPaths
    /\ UNCHANGED <<script, TENSORFLOW_AVAILABLE, JOBLIB_AVAILABLE, str_hash,
                   model_cache>>

\* model-predictor.py: predictor.predict(...)
BasicPredict(requests) ==
    /\ script = "basic"
    /\ budget > 0
    /\ \E rq \in requests, gone \in BOOLEAN :
        LET r == Basic_predict(store, AtRead(rq, gone), model_cache,
                    str_hash[rq.state], rq.state, rq.lat, rq.lon,
                    rq.prediction_date, rq.model_type, rq.now1, rq.now2,
                    rq.noise)
        IN /\ CanVanish(rq, gone)
           /\ store' = AtRead(rq, gone)
           /\ storeOps' = IF gone THEN storeOps + 1 ELSE storeOps
           /\ model_cache' = r.load.cache
           /\ result' = r.result
           /\ call' = PredictCall(model_cache, rq, r.load)
           /\ loads' = CountLoad(rq, r.load)
    /\ budget' = budget - 1
    /\ available_models' = <<>>
    /\ model_paths' = NoPaths
    /\ UNCHANGED <<script, TENSORFLOW_AVAILABLE, JOBLIB_AVAILABLE, str_hash,
                   loaded_models>>

\* model-predictor-simple.py: generate_prediction(...)
SimplePredict(requests) ==
    /\ script = "simple"
    /\ budget > 0
    /\ \E rq \in requests :
        /\ result' = generate_prediction(rq.state, rq.lat, rq.lon,
                         rq.prediction_date, rq.model_type, rq.now1, rq.noise)
        /\ call' = CallRecord("generate_prediction", rq,
                       exists(store, get_model_path(rq.state, rq.model_type)),
                       FALSE, NoModel, FALSE, FALSE, NoModel)
    /\ budget' = budget - 1
    /\ available_models' = <<>>
    /\ model_paths' = NoPaths
    /\ UNCHANGED <<store, script, TENSORFLOW_AVAILABLE, JOBLIB_AVAILABLE,
                   str_hash, loaded_models, model_cache, loads, storeOps>>

\* the record of a get_available_models call: only the label it was given
ListingCall(state) ==
    [NoCall EXCEPT !.op = "get_available_models", !.rq.state = state]

\* predictor.get_available_models(state), on either predictor class
GetAvailableModels(labels) ==
    /\ script \in {"advanced", "basic"}
    /\ budget > 0
    /\ \E state \in labels :
        LET r == get_available_models(store,
                     IF script = "advanced" THEN loaded_models ELSE model_cache,
                     state)
        IN /\ available_models' = r.available_models
           /\ model_paths' = r.model_paths
           /\ loaded_models' =
                  IF script = "advanced" THEN r.cache ELSE loaded_models
           /\ model_cache' = IF script = "basic" THEN r.cache ELSE model_cache
           /\ call' = ListingCall(state)
    /\ result' = NoResult
    /\ budget' = budget - 1
    /\ UNCHANGED <<store, script, TENSORFLOW_AVAILABLE, JOBLIB_AVAILABLE,
                   str_hash, loads, storeOps>>

\* the environment writes an artifact file (a training run, a deployment)
StoreWrite(path, content) ==
    /\ storeOps < MaxStoreOps
    /\ store[path] # content
    /\ store' = [store EXCEPT ![path] = content]
    /\ storeOps' = storeOps + 1
    /\ UNCHANGED <<script, TENSORFLOW_AVAILABLE, JOBLIB_AVAILABLE, str_hash,
                   loaded_models, model_cache, result, call, loads, budget,
                   available_models, model_paths>>

\* the environment removes an artifact file
StoreRemove(path) ==
    /\ storeOps < MaxStoreOps
    /\ store[path] # Absent
    /\ store' = [store EXCEPT ![path] = Absent]
    /\ storeOps' = storeOps + 1
    /\ UNCHANGED <<script, TENSORFLOW_AVAILABLE, JOBLIB_AVAILABLE, str_hash,
                   loaded_models, model_cache, result, call, loads, budget,
                   available_models, model_paths>>

\* the files the service's requests resolve to, and what gets deployed there
ServicePaths ==
    {get_model_path(rq.state, rq.model_type) : rq \in ServiceRequests}
Deployments == {Corrupt, Good15}

Next ==
    \/ AdvPredict(ServiceRequests)
    \/ BasicPredict(ServiceRequests)
    \/ SimplePredict(ServiceRequests)
    \/ GetAvailableModels(Regions)
    \/ \E p \in ServicePaths, content \in Deployments : StoreWrite(p, content)
    \/ \E p \in ServicePaths : StoreRemove(p)

Spec == Init /\ [][Next]_vars

\* One command-line invocation: main() builds a predictor, serves exactly one
\* request and exits; the models directory is whatever it is when it starts,
\* and the file asked for may be removed while the request is served.
InitCli ==
    /\ Fresh
    /\ \E content \in FileContents \cup {Absent} :
           store = [p \in Paths |-> content]
    /\ str_hash \in HashChoices
    /\ budget = 1

NextCli ==
    \/ AdvPredict(CliRequests)
    \/ BasicPredict(CliRequests)
    \/ SimplePredict(CliRequests)

SpecCli == InitCli /\ [][NextCli]_vars

\* A caller that builds a predictor and asks, for one label, which families
\* have an artifact; the models directory holds the files of any set of
\* families.
InitQuery ==
    /\ Fresh
    /\ \E present \in SUBSET Families :
           store = [p \in Paths |->
                      IF p \in {get_model_path(l, t) : l \in Labels, t \in present}
                      THEN Good15 ELSE Absent]
    /\ str_hash = [s \in Regions |-> IF s = "MP" THEN 7 ELSE 960]
    /\ budget = 1

NextQuery == GetAvailableModels(Labels)

SpecQuery == InitQuery /\ [][NextQuery]_vars

\* =================================================================
\* Claims
\* =================================================================
IsPredict == call.op = "predict"
IsCall == call.op \in {"predict", "generate_prediction"}
Key == cache_key(call.rq.state, call.rq.model_type)

\* C1 (as claimed): once a key is in the cache, a later get for it answers
\* from the cache with the handle the cache holds, whatever the models
\* directory holds by then.
C1_CachedKeyAnswersFromCache ==
    (IsPredict /\ call.cached) => (call.hit /\ call.got = call.held)

\* C2: whatever the sequence of calls of one process, no cache key has an
\* artifact deserialized for it more than once.
C2_AtMostOneLoadPerKey == \A k \in CacheKeys : loads[k] <= 1

\* C2 witness: a second request for a key answered by the cache, the only
\* load of that key being the earlier one.
C2_Witness == IsPredict /\ call.hit /\ ~call.loaded /\ loads[Key] = 1

\* C3 (as claimed): a model type outside ARIMA, XGBoost, LSTM, Prophet always
\* fails with the "Unsupported model type" error and never yields a result,
\* whatever the models directory holds.
C3_UnsupportedAlwaysRejected ==
    (IsCall /\ call.rq.model_type \notin Families) =>
        /\ ~result.ok
        /\ result.error.msg =
              "Prediction failed: Unsupported model type: " \o call.rq.model_type

\* C4: predict for ARIMA, XGBoost or Prophet with no file at the resolved path
\* fails, its message carrying "Model not found: <path>", and gives no
\* historical or forecast data.
C4_MissingArtifactFails ==
    (IsPredict /\ call.rq.model_type \in Families \ {"LSTM"} /\ ~call.existed) =>
        /\ ~result.ok
        /\ result.error.msg = "Prediction failed: Model not found: " \o call.path
        /\ result.historical_data = <<>>
        /\ result.forecast_data = <<>>

\* C4 witness: such a request was made and failed.
C4_Witness ==
    /\ IsPredict
    /\ call.rq.model_type = "XGBoost"
    /\ ~call.existed
    /\ ~result.ok
    /\ call.path = "models/MP_xgboost_model.joblib"

\* C5 (as claimed): for LSTM with the file present, the load never fails: the
\* get gives the placeholder tagged with the region.
C5_LstmLoadNeverRaises ==
    (IsPredict /\ call.rq.model_type = "LSTM" /\ call.existed) =>
        call.got = LstmHandle(call.rq.state)

\* the columns the running script gives the estimator for the last request
FeaturesOfCall ==
    LET d == strptime(call.rq.prediction_date).value
    IN IF script = "advanced"
       THEN Adv_features(str_hash[call.rq.state], call.rq.lat, call.rq.lon, d)
       ELSE Basic_features(str_hash[call.rq.state], call.rq.lat, call.rq.lon, d)

\* an XGBoost request whose artifact loaded and whose inference then failed:
\* the handle has no predict, or was fitted on another number of columns
InferenceFailed ==
    /\ IsPredict
    /\ call.rq.model_type = "XGBoost"
    /\ call.got.kind # "none"
    /\ DateValid(call.rq.prediction_date)
    /\ \/ ~call.got.hasPredict
       \/ call.got.n_features # Len(FeaturesOfCall)

\* C6: when the inference of a loaded XGBoost artifact fails, predict still
\* returns a complete result and its point prediction is
\* base_usage(region) + noise of scale 10, rounded and floored at 0.
C6_InferenceFailureFallsBack ==
    InferenceFailed =>
        /\ result.ok
        /\ result.model_type = "XGBoost"
        /\ Len(result.historical_data) = HistoryDays
        /\ Len(result.forecast_data) >= 1
        /\ Len(result.features_used) = Len(FeaturesOfCall)
        /\ LET raw == (BaseFloor + (str_hash[call.rq.state] % BaseSpread)) * 1000
                         + 10 * Normal(call.rq.noise, 0)
           IN result.predicted_usage = (IF raw < 0 THEN 0 ELSE Round2(raw))

\* C6 witness: an estimator fitted on another number of columns was loaded
\* and the request was answered by the fallback.
C6_Witness ==
    /\ InferenceFailed
    /\ call.got.hasPredict
    /\ result.ok
    /\ result.strategy = "fallback"
    /\ result.predicted_usage > 0

\* the reading of the clock the forecast horizon was computed from
HorizonClock == IF IsPredict THEN call.rq.now2 ELSE call.rq.now1

\* the parsed prediction_date of the last request
Target == strptime(call.rq.prediction_date).value

\* 'YYYY-MM-DD' texts compared as strings
DateLess(a, b) ==
    \/ a[1] < b[1]
    \/ a[1] = b[1] /\ a[2] < b[2]
    \/ a[1] = b[1] /\ a[2] = b[2] /\ a[3] < b[3]

\* C7: every result carries exactly 90 historical points, on consecutive
\* calendar days in strictly increasing order, from 90 days before today to
\* the day before today.
C7_HistoricalSeriesShape ==
    (IsCall /\ result.ok) =>
        LET h == result.historical_data
        IN /\ Len(h) = 90
           /\ \A j \in 1..Len(h) : DateValid(h[j].date)
           /\ ymd2ord(h[1].date[1], h[1].date[2], h[1].date[3])
                 = call.rq.now1.ord - 90
           /\ ymd2ord(h[Len(h)].date[1], h[Len(h)].date[2], h[Len(h)].date[3])
                 = call.rq.now1.ord - 1
           /\ \A j \in 1..(Len(h) - 1) :
                 /\ DateLess(h[j].date, h[j + 1].date)
                 /\ ymd2ord(h[j + 1].date[1], h[j + 1].date[2], h[j + 1].date[3])
                       = ymd2ord(h[j].date[1], h[j].date[2], h[j].date[3]) + 1

\* C7 witness: a history that starts in the previous year and crosses a
\* leap day.
C7_Witness ==
    /\ IsCall
    /\ result.ok
    /\ result.historical_data[1].date = <<2023, 12, 31>>
    /\ result.historical_data[61].date = <<2024, 2, 29>>
    /\ result.historical_data[90].date = <<2024, 3, 29>>

\* C8 (as claimed): the forecast has max(1, k) points for a prediction_date k
\* calendar days after today's date, at any time of day.
C8_ForecastLengthIsCalendarDays ==
    (IsCall /\ result.ok) =>
        Len(result.forecast_data)
            = (IF Target.ord - HorizonClock.ord >= 1
               THEN Target.ord - HorizonClock.ord ELSE 1)

\* C9 (as claimed): the forecast dates are today + 1, today + 2, ..., and the
\* last one is prediction_date when that lies in the future.
C9_ForecastStartsTomorrow ==
    (IsCall /\ result.ok) =>
        LET f == result.forecast_data
        IN /\ \A i \in 1..Len(f) :
                 ymd2ord(f[i].date[1], f[i].date[2], f[i].date[3])
                    = HorizonClock.ord + i
           /\ Target.ord > HorizonClock.ord =>
                 f[Len(f)].date = call.rq.prediction_date

\* C10: in every result the point prediction and every usage value of both
\* series are at least 0, whichever way the point prediction was made.
C10_UsageNonNegative ==
    (IsCall /\ result.ok) =>
        /\ result.predicted_usage >= 0
        /\ \A j \in 1..Len(result.historical_data) :
              result.historical_data[j].usage >= 0
        /\ \A i \in 1..Len(result.forecast_data) :
              result.forecast_data[i].usage >= 0

\* C10 witness: a loaded estimator answered a negative value and the result
\* carries 0.
C10_Witness ==
    /\ IsPredict
    /\ result.ok
    /\ result.strategy = "inference"
    /\ call.got.output < 0
    /\ result.predicted_usage = 0

IsListing == call.op = "get_available_models"

\* the normalization table as the specification reads it: the code a label
\* stands for
CanonicalCode(label) ==
    CASE label = "Dadra & Nagar Haveli (DNH)" -> "DNH"
      [] label = "Himachal Pradesh (HP)" -> "HP"
      [] label = "Jammu & Kashmir (J&K)" -> "J&K"
      [] label = "Madhya Pradesh (MP)" -> "MP"
      [] label = "Puducherry (Pondy)" -> "Pondy"
      [] label = "Uttar Pradesh (UP)" -> "UP"
      [] OTHER -> label

\* C11: the path resolved for a long label of the table is the path resolved
\* for its code used directly; a label outside the table is used verbatim;
\* LSTM resolves to <code>_lstm_model.h5 and every other family to
\* <code>_<family lowercased>_model.joblib, under the models directory.
C11_PathResolution ==
    IsListing =>
        LET label == call.rq.state
            code == CanonicalCode(label)
        IN /\ model_paths["LSTM"] = "models/" \o code \o "_lstm_model.h5"
           /\ model_paths["ARIMA"] = "models/" \o code \o "_arima_model.joblib"
           /\ model_paths["XGBoost"]
                 = "models/" \o code \o "_xgboost_model.joblib"
           /\ model_paths["Prophet"]
                 = "models/" \o code \o "_prophet_model.joblib"
           /\ \A t \in Families : model_paths[t] = get_model_path(code, t)

\* C11 witness: a long label of the table resolved to the files of its code.
C11_Witness ==
    /\ IsListing
    /\ call.rq.state = "Jammu & Kashmir (J&K)"
    /\ model_paths["LSTM"] = "models/J&K_lstm_model.h5"
    /\ model_paths["XGBoost"] = "models/J&K_xgboost_model.joblib"

\* whether the file of family t is in the models directory as label's call
\* finds it
HasArtifact(label, t) == store[get_model_path(label, t)] # Absent

\* this step is a get_available_models call
ListingStep == call'.op = "get_available_models" /\ budget' = budget - 1

\* C12: get_available_models returns exactly the families, in the order ARIMA,
\* XGBoost, LSTM, Prophet, whose artifact file exists, and the call leaves
\* the cache, the count of loads and the models directory as they were,
\* whatever the cache holds and however often it is called.
C12_ListingIsReadOnly ==
    [][ListingStep =>
        LET label == call'.rq.state
        IN /\ available_models' =
                (IF HasArtifact(label, "ARIMA") THEN <<"ARIMA">> ELSE <<>>)
                \o (IF HasArtifact(label, "XGBoost") THEN <<"XGBoost">> ELSE <<>>)
                \o (IF HasArtifact(label, "LSTM") THEN <<"LSTM">> ELSE <<>>)
                \o (IF HasArtifact(label, "Prophet") THEN <<"Prophet">> ELSE <<>>)
           /\ loaded_models' = loaded_models
           /\ model_cache' = model_cache
           /\ loads' = loads
           /\ store' = store]_vars

\* C12 witness: a listing made while the cache holds a handle and one of the
\* four files is gone.
C12_Witness ==
    /\ IsListing
    /\ call.rq.state = "MP"
    /\ available_models = <<"ARIMA", "XGBoost", "Prophet">>
    /\ "MP_XGBoost" \in DOMAIN loaded_models

\* base_usage of the last call, with the scale shift the simple script adds
BaseOfCall ==
    IF IsPredict THEN base_usage(str_hash[call.rq.state])
    ELSE Simple_base(call.rq.state) + ScaleShift * 1000

\* the seasonality term of a series point, from the date it carries
SeasonOf(point) ==
    Seasonality(tm_yday([ord |-> ymd2ord(point.date[1], point.date[2],
                                         point.date[3]), sec |-> 0]))

\* C13 (as claimed): with the noise at zero, the historical point i days
\* before today is base + (-i) * 0.1 + seasonality and the j-th forecast point
\* is base + j * 0.1 + seasonality, so that the historical values less their
\* seasonality strictly increase from the oldest point to the newest.
C13_TrendTerms ==
    (IsCall /\ result.ok /\ call.rq.noise = "flat") =>
        LET h == result.historical_data
            f == result.forecast_data
        IN /\ \A j \in 1..Len(h) :
                 h[j].usage = Floor0(Round2(BaseOfCall
                                  + (0 - (Len(h) - j + 1)) * 100 + SeasonOf(h[j])))
           /\ \A j \in 1..Len(f) :
                 f[j].usage = Floor0(Round2(BaseOfCall + j * 100 + SeasonOf(f[j])))
           /\ \A j \in 1..(Len(h) - 1) :
                 h[j + 1].usage - SeasonOf(h[j + 1]) > h[j].usage - SeasonOf(h[j])

\* the cache of the predictor this process runs
Cache == IF script = "advanced" THEN loaded_models ELSE model_cache

\* this step is a predict call
PredictStep == call'.op = "predict" /\ budget' = budget - 1

\* C14: the cache is keyed by the label as the caller wrote it.  A predict
\* is answered from the cache exactly when the file exists and the cache
\* holds an entry under "<label>_<family>" for that very label; a load stores
\* the handle under that key and adds no other; and a label with no entry of
\* its own loads the file even when another label of the same file has one.
C14_CacheKeyedByRawLabel ==
    [][PredictStep =>
        LET raw == call'.rq.state \o "_" \o call'.rq.model_type
        IN /\ call'.hit <=> (call'.existed /\ raw \in DOMAIN Cache)
           /\ call'.loaded =>
                 /\ raw \notin DOMAIN Cache
                 /\ DOMAIN Cache' = (DOMAIN Cache) \cup {raw}
                 /\ Cache'[raw] = call'.got
           /\ (result'.ok /\ raw \notin DOMAIN Cache) => call'.loaded]_vars

\* C14 witness: the same file loaded twice, once for each of two labels, and
\* held under two cache entries.
C14_Witness ==
    /\ IsPredict
    /\ call.loaded
    /\ call.path = "models/MP_xgboost_model.joblib"
    /\ {"MP_XGBoost", "Madhya Pradesh (MP)_XGBoost"} \subseteq DOMAIN Cache
    /\ loads["MP_XGBoost"] = 1
    /\ loads["Madhya Pradesh (MP)_XGBoost"] = 1

\* what the try block of _load_model can raise in this step: the two
\* ImportErrors of the script, and whatever joblib.load raises on the file as
\* the call's read found it
LoadCauses ==
    {"TensorFlow not available for LSTM models",
     "joblib not available for model loading"}
    \cup (IF joblib_load(store', call'.path).ok THEN {}
          ELSE {joblib_load(store', call'.path).error.msg})

\* the messages a failed load is reported with: the cause, wrapped by
\* _load_model and again by predict
LoadFailureMessages ==
    { "Prediction failed: " \o LoadFailure(call'.path, [type |-> "", msg |-> cause]).msg :
        cause \in LoadCauses }

\* C15: no step removes or replaces a cache entry; a predict that fails
\* without its load having succeeded leaves the cache exactly as it was, and
\* its key without an entry unless it had one; and a key without an entry is
\* never answered without a load: while the file exists, each call for it
\* attempts the load again and either loads or fails with the load error.
C15_FailureLeavesCache ==
    [][/\ \A k \in DOMAIN Cache : k \in DOMAIN Cache' /\ Cache'[k] = Cache[k]
       /\ (PredictStep /\ ~result'.ok /\ ~call'.loaded) => Cache' = Cache
       /\ (PredictStep /\ ~call'.loaded) =>
             DOMAIN Cache' \subseteq DOMAIN Cache
       /\ (PredictStep /\ call'.existed
              /\ (call'.rq.state \o "_" \o call'.rq.model_type) \notin DOMAIN Cache) =>
             \/ call'.loaded
             \/ ~result'.ok /\ result'.error.msg \in LoadFailureMessages]_vars

\* C15 witness: a deserialization that failed while the cache held another
\* entry; the failed key has no entry and the other entry is still there.
C15_Witness ==
    /\ IsPredict
    /\ ~result.ok
    /\ call.existed
    /\ ~call.loaded
    /\ store[call.path] = Corrupt
    /\ (call.rq.state \o "_" \o call.rq.model_type) \notin DOMAIN Cache
    /\ DOMAIN Cache # {}
====
